---- MODULE Spec2Model ----
(***************************************************************************)
(* Model of eternaldisco.py: a script that builds a fixed list of          *)
(* timestamped MIDI events (classical, reggae, rock sections), sorts it,   *)
(* delta-encodes it with variable-length quantities, frames it as a        *)
(* format-0 Standard MIDI File and writes the file.                        *)
(*                                                                         *)
(* Bytes are integers 0..255, byte strings are sequences of bytes, an      *)
(* event is a record [time, data].  Python integers are unbounded, so      *)
(* x & 0x7F is x % 128 and x >> 7 is x \div 128 (floor), also for x < 0.   *)
(***************************************************************************)
EXTENDS Integers, Sequences, FiniteSets, TLC

VARIABLES pc, i, events, idx, delta, to_write, midi_bytes, last_time,
          midi_data, file, console

vars == <<pc, i, events, idx, delta, to_write, midi_bytes, last_time,
          midi_data, file, console>>

(***************************************************************************)
(* Bounds of the serializer-input specifications                           *)
(***************************************************************************)
MaxEvents == 3
MaxDelta == 300
MaxVlqBytes == 6

(***************************************************************************)
(* Program constants                                                       *)
(***************************************************************************)
TICKS_PER_BEAT == 96

CHAN_CLASSICAL == 0
CHAN_REGGAE == 1
CHAN_BASS == 2
CHAN_ROCK == 4
CHAN_DRUMS == 9

PROG_STRINGS == 48
PROG_ORGAN == 16
PROG_BASS == 33
PROG_GUITAR == 30

KICK == 36
SNARE == 38
HIHAT_CLOSED == 42
RIDE_CYMBAL == 51
CRASH_CYMBAL == 49
TOM_LOW == 41

chords_classical ==
    [Am |-> <<57, 60, 64>>, G |-> <<55, 59, 62>>,
     F |-> <<53, 57, 60>>, E |-> <<52, 56, 59>>]

chords_reggae ==
    [Am |-> chords_classical["Am"], G |-> chords_classical["G"],
     F |-> chords_classical["F"], Em |-> <<52, 55, 59>>,
     E |-> chords_classical["E"]]

chords_rock ==
    [Am |-> <<45, 52, 57>>, G |-> <<43, 50, 55>>,
     F |-> <<41, 48, 53>>, E |-> <<40, 47, 52>>]

bass_notes == [A |-> <<33>>, G |-> <<31>>, F |-> <<29>>, E |-> <<28>>]

\* chord_name[0]: the first character of each chord name in use
root_letter_of == [Am |-> "A", G |-> "G", F |-> "F", Em |-> "E", E |-> "E"]

(***************************************************************************)
(* Helpers                                                                 *)
(***************************************************************************)
\* a | b on non-negative integers
RECURSIVE BitOr(_, _)
BitOr(a, b) ==
    IF a = 0 THEN b
    ELSE IF b = 0 THEN a
    ELSE (IF a % 2 = 1 \/ b % 2 = 1 THEN 1 ELSE 0) + 2 * BitOr(a \div 2, b \div 2)

\* int(beats * TICKS_PER_BEAT) for the non-negative beat count num/den; every
\* product the script forms is exact in binary floating point or (0.9 * 96)
\* well inside an integer interval, so truncation is the integer quotient
beats_to_ticks(num, den) == (num * TICKS_PER_BEAT) \div den

\* one element of the events list: (time_in_ticks, bytes_data)
Ev(t, d) == [time |-> t, data |-> d]

NoteOn(chan, pitch, vel) == <<BitOr(144, chan), pitch, vel>>
NoteOff(chan, pitch, vel) == <<BitOr(128, chan), pitch, vel>>
DrumHit(pitch, vel) == <<153, pitch, vel>>

RECURSIVE Flatten(_)
Flatten(ss) == IF ss = <<>> THEN <<>> ELSE Head(ss) \o Flatten(Tail(ss))

\* list.remove(v): drop the first occurrence of v
RemoveFirst(s, v) ==
    LET k == CHOOSE n \in 1..Len(s) : s[n] = v /\ \A m \in 1..(n - 1) : s[m] # v
    IN SubSeq(s, 1, k - 1) \o SubSeq(s, k + 1, Len(s))

(***************************************************************************)
(* Score builder                                                           *)
(***************************************************************************)
ProgramChangeEvents ==
    << Ev(0, <<BitOr(192, CHAN_CLASSICAL), PROG_STRINGS>>),
       Ev(0, <<BitOr(192, CHAN_REGGAE), PROG_ORGAN>>),
       Ev(0, <<BitOr(192, CHAN_BASS), PROG_BASS>>),
       Ev(0, <<BitOr(192, CHAN_ROCK), PROG_GUITAR>>) >>

add_tempo_change_late(time_ticks, bpm) ==
    LET mpqn == 60000000 \div bpm
    IN Ev(time_ticks + 1, <<255, 81, 3, (mpqn \div 65536) % 256,
                            (mpqn \div 256) % 256, mpqn % 256>>)

add_tempo_change(time_ticks, bpm) ==
    LET mpqn == 60000000 \div bpm
    IN Ev(time_ticks, <<255, 81, 3, (mpqn \div 65536) % 256,
                        (mpqn \div 256) % 256, mpqn % 256>>)

start_classical == 0
start_reggae == beats_to_ticks(32, 1)
start_rock == start_reggae + beats_to_ticks(32, 1)

\* the three add_tempo_change calls, in order
TempoCalls == << <<0, 90>>, <<start_reggae, 80>>, <<start_rock, 120>> >>

progression_classical == <<"Am", "G", "F", "E", "Am", "G", "F", "E">>
progression_reggae == <<"Am", "G", "F", "Em", "Am", "G", "F", "E">>
progression_rock == <<"Am", "G", "F", "E", "Am", "G", "F", "E">>

ClassicalMeasureShort(n) ==
    LET chord_start == start_classical + beats_to_ticks(4 * n, 1)
        notes == chords_classical[progression_classical[n + 1]]
        chord_end == chord_start + beats_to_ticks(3, 1)
    IN [k \in 1..Len(notes) |-> Ev(chord_start, NoteOn(CHAN_CLASSICAL, notes[k], 100))]
       \o [k \in 1..Len(notes) |-> Ev(chord_end, NoteOff(CHAN_CLASSICAL, notes[k], 64))]

\* events appended by iteration n (0-based) of the classical loop
ClassicalMeasure(n) ==
    LET chord_start == start_classical + beats_to_ticks(4 * n, 1)
        notes == chords_classical[progression_classical[n + 1]]
        chord_end == chord_start + beats_to_ticks(4, 1)
    IN [k \in 1..Len(notes) |-> Ev(chord_start, NoteOn(CHAN_CLASSICAL, notes[k], 100))]
       \o [k \in 1..Len(notes) |-> Ev(chord_end, NoteOff(CHAN_CLASSICAL, notes[k], 64))]

\* a skank stab: per pitch, Note On at t then Note Off half a beat later
SkankStab(t, chord_notes) ==
    Flatten([k \in 1..Len(chord_notes) |->
        << Ev(t, NoteOn(CHAN_REGGAE, chord_notes[k], 90)),
           Ev(t + beats_to_ticks(1, 2), NoteOff(CHAN_REGGAE, chord_notes[k], 64)) >>])

\* events appended by iteration n (0-based) of the reggae loop
ReggaeBar(n) ==
    LET chord_name == progression_reggae[n + 1]
        bar_start == start_reggae + beats_to_ticks(4 * n, 1)
        beat1 == bar_start + beats_to_ticks(0, 1)
        beat2 == bar_start + beats_to_ticks(1, 1)
        beat3 == bar_start + beats_to_ticks(2, 1)
        beat4 == bar_start + beats_to_ticks(3, 1)
        last_bar == (n = Len(progression_reggae) - 1)
        root_letter == root_letter_of[chord_name]
        bass ==
            IF root_letter \in DOMAIN bass_notes
            THEN LET root_pitch == bass_notes[root_letter][1]
                 IN << Ev(beat1, NoteOn(CHAN_BASS, root_pitch, 100)),
                       Ev(beat1 + beats_to_ticks(1, 1), NoteOff(CHAN_BASS, root_pitch, 64)),
                       Ev(beat3, NoteOn(CHAN_BASS, root_pitch, 100)),
                       Ev(beat3 + beats_to_ticks(1, 1), NoteOff(CHAN_BASS, root_pitch, 64)) >>
            ELSE <<>>
        chord_notes == chords_reggae[chord_name]
        stab2 == SkankStab(beat2, chord_notes)
        stab4 == IF ~last_bar THEN SkankStab(beat4, chord_notes) ELSE <<>>
        all_hats == << bar_start + beats_to_ticks(1, 2), bar_start + beats_to_ticks(3, 2),
                       bar_start + beats_to_ticks(5, 2), bar_start + beats_to_ticks(7, 2) >>
        hi_hat_times == IF last_bar THEN SubSeq(all_hats, 1, Len(all_hats) - 1) ELSE all_hats
        hats == [k \in 1..Len(hi_hat_times) |-> Ev(hi_hat_times[k], DrumHit(HIHAT_CLOSED, 80))]
        drop == << Ev(beat3, DrumHit(KICK, 100)), Ev(beat3, DrumHit(SNARE, 100)) >>
        fill ==
            IF last_bar
            THEN << Ev(beat4, DrumHit(SNARE, 110)),
                    Ev(beat4 + beats_to_ticks(1, 2), DrumHit(TOM_LOW, 110)) >>
            ELSE <<>>
    IN bass \o stab2 \o stab4 \o hats \o drop \o fill

KickLoopInclusive(t, stop, step) ==
    [k \in 1..((stop - t) \div step + 1) |-> Ev(t + (k - 1) * step, DrumHit(KICK, 127))]

\* while t < stop: append a kick at t; t += step
RECURSIVE KickLoop(_, _, _)
KickLoop(t, stop, step) ==
    IF t < stop
    THEN <<Ev(t, DrumHit(KICK, 127))>> \o KickLoop(t + step, stop, step)
    ELSE <<>>

RockGuitarOnBeforeOff(guitar_notes, beat1, beat3, bar_end) ==
    [k \in 1..Len(guitar_notes) |-> Ev(beat1, NoteOn(CHAN_ROCK, guitar_notes[k], 120))]
    \o [k \in 1..Len(guitar_notes) |-> Ev(beat3, NoteOn(CHAN_ROCK, guitar_notes[k], 120))]
    \o [k \in 1..Len(guitar_notes) |-> Ev(beat3, NoteOff(CHAN_ROCK, guitar_notes[k], 64))]
    \o [k \in 1..Len(guitar_notes) |-> Ev(bar_end, NoteOff(CHAN_ROCK, guitar_notes[k], 64))]

\* rhythm guitar of one rock bar: strum on beat 1, release and re-strum on
\* beat 3, release at the end of the bar
RockGuitar(guitar_notes, beat1, beat3, bar_end) ==
    [k \in 1..Len(guitar_notes) |-> Ev(beat1, NoteOn(CHAN_ROCK, guitar_notes[k], 120))]
    \o [k \in 1..Len(guitar_notes) |-> Ev(beat3, NoteOff(CHAN_ROCK, guitar_notes[k], 64))]
    \o [k \in 1..Len(guitar_notes) |-> Ev(beat3, NoteOn(CHAN_ROCK, guitar_notes[k], 120))]
    \o [k \in 1..Len(guitar_notes) |-> Ev(bar_end, NoteOff(CHAN_ROCK, guitar_notes[k], 64))]

\* events appended by iteration n (0-based) of the rock loop
RockBar(n) ==
    LET chord_name == progression_rock[n + 1]
        bar_start == start_rock + beats_to_ticks(4 * n, 1)
        beat1 == bar_start
        beat2 == bar_start + beats_to_ticks(1, 1)
        beat3 == bar_start + beats_to_ticks(2, 1)
        beat4 == bar_start + beats_to_ticks(3, 1)
        double_time == (n >= 4)
        guitar == RockGuitar(chords_rock[chord_name], beat1, beat3,
                             beat4 + beats_to_ticks(1, 1))
        root_letter == root_letter_of[chord_name]
        beats == <<beat1, beat2, beat3, beat4>>
        bass ==
            IF root_letter \in DOMAIN bass_notes
            THEN LET bass_pitch == bass_notes[root_letter][1]
                 IN Flatten([k \in 1..4 |->
                        << Ev(beats[k], NoteOn(CHAN_BASS, bass_pitch, 100)),
                           Ev(beats[k] + beats_to_ticks(9, 10),
                              NoteOff(CHAN_BASS, bass_pitch, 64)) >>])
            ELSE <<>>
        all_eights == [k \in 1..8 |-> bar_start + beats_to_ticks(k - 1, 2)]
        eight_times == IF n = 0 THEN RemoveFirst(all_eights, bar_start) ELSE all_eights
        drums ==
            IF ~double_time
            THEN << Ev(beat1, DrumHit(KICK, 127)), Ev(beat2, DrumHit(SNARE, 120)),
                    Ev(beat3, DrumHit(KICK, 127)), Ev(beat4, DrumHit(SNARE, 120)) >>
                 \o [k \in 1..Len(eight_times) |->
                        Ev(eight_times[k], DrumHit(HIHAT_CLOSED, 90))]
            ELSE KickLoop(bar_start, bar_start + beats_to_ticks(4, 1), beats_to_ticks(1, 4))
                 \o << Ev(beat2, DrumHit(SNARE, 120)), Ev(beat4, DrumHit(SNARE, 120)),
                       Ev(beat1, DrumHit(RIDE_CYMBAL, 100)), Ev(beat2, DrumHit(RIDE_CYMBAL, 100)),
                       Ev(beat3, DrumHit(RIDE_CYMBAL, 100)), Ev(beat4, DrumHit(RIDE_CYMBAL, 100)) >>
    IN guitar \o bass \o drums

CrashEvent == Ev(start_rock, DrumHit(CRASH_CYMBAL, 127))

end_time == start_rock + beats_to_ticks(32, 1)
EndOfTrackEvent == Ev(end_time, <<255, 47, 0>>)

(***************************************************************************)
(* MIDI serializer                                                         *)
(***************************************************************************)
SortRankUnstable(s, k) ==
    Cardinality({m \in 1..Len(s) :
        \/ s[m].time < s[k].time
        \/ s[m].time = s[k].time /\ m > k}) + 1

\* the place a stable ascending sort by e[0] gives to element k of s: behind
\* every element with a smaller time and every earlier element with the same
SortRank(s, k) ==
    Cardinality({m \in 1..Len(s) :
        \/ s[m].time < s[k].time
        \/ s[m].time = s[k].time /\ m < k}) + 1

\* events.sort(key=lambda e: e[0]): stable, ascending by time
SortByTime(s) ==
    LET rank == SubSeq([k \in 1..Len(s) |-> SortRank(s, k)], 1, Len(s))
        at == [r \in 1..Len(s) |-> CHOOSE k \in 1..Len(s) : rank[k] = r]
    IN SubSeq([r \in 1..Len(s) |-> s[at[r]]], 1, Len(s))

\* buffer = delta & 0x7F
VlqLowByte(d) == d % 128

VlqContinuationByteNoFlag(d) == d % 128

\* buffer = (delta & 0x7F) | 0x80
VlqContinuationByte(d) == BitOr(d % 128, 128)

\* delta >>= 7
Shr7(d) == d \div 128

RECURSIVE Pow256(_)
Pow256(n) == IF n = 0 THEN 1 ELSE 256 * Pow256(n - 1)

\* (n).to_bytes(len, 'big')
to_bytes(n, len) == [k \in 1..len |-> (n \div Pow256(len - k)) % 256]

header ==
    <<77, 84, 104, 100>> \o to_bytes(6, 4) \o to_bytes(0, 2) \o to_bytes(1, 2)
    \o to_bytes(TICKS_PER_BEAT, 2)

track_chunk_with_tag(body) == <<77, 84, 114, 107>> \o to_bytes(Len(body) + 8, 4)

track_chunk(body) == <<77, 84, 114, 107>> \o to_bytes(Len(body), 4)

\* lengths of the contents a failed write may leave behind: the one buffered
\* write of data is flushed when the file is closed, and the operating system
\* may have accepted any proper prefix of it before the error
PartialWrites(data) == 0..(Len(data) - 1)

ConfirmationLine ==
    "MIDI file 'genre_blend.mid' has been generated. You can now open it in a MIDI player or DAW."

NoFile == [exists |-> FALSE, content |-> <<>>]

(***************************************************************************)
(* Initial state and steps of the script                                   *)
(***************************************************************************)
Init ==
    /\ pc = "programs"
    /\ i = 0
    /\ events = <<>>
    /\ idx = 1
    /\ delta = 0
    /\ to_write = <<>>
    /\ midi_bytes = <<>>
    /\ last_time = 0
    /\ midi_data = <<>>
    /\ file = NoFile
    /\ console = <<>>

ProgramChanges ==
    /\ pc = "programs"
    /\ events' = events \o ProgramChangeEvents
    /\ pc' = "tempo"
    /\ UNCHANGED <<i, idx, delta, to_write, midi_bytes, last_time, midi_data, file, console>>

TempoChange ==
    /\ pc = "tempo"
    /\ events' = Append(events, add_tempo_change(TempoCalls[i + 1][1], TempoCalls[i + 1][2]))
    /\ IF i + 1 < Len(TempoCalls)
       THEN i' = i + 1 /\ pc' = pc
       ELSE i' = 0 /\ pc' = "classical"
    /\ UNCHANGED <<idx, delta, to_write, midi_bytes, last_time, midi_data, file, console>>

ClassicalStep ==
    /\ pc = "classical"
    /\ events' = events \o ClassicalMeasure(i)
    /\ IF i + 1 < Len(progression_classical)
       THEN i' = i + 1 /\ pc' = pc
       ELSE i' = 0 /\ pc' = "reggae"
    /\ UNCHANGED <<idx, delta, to_write, midi_bytes, last_time, midi_data, file, console>>

ReggaeStep ==
    /\ pc = "reggae"
    /\ events' = events \o ReggaeBar(i)
    /\ IF i + 1 < Len(progression_reggae)
       THEN i' = i + 1 /\ pc' = pc
       ELSE i' = 0 /\ pc' = "rock"
    /\ UNCHANGED <<idx, delta, to_write, midi_bytes, last_time, midi_data, file, console>>

RockStep ==
    /\ pc = "rock"
    /\ events' = events \o RockBar(i)
    /\ IF i + 1 < Len(progression_rock)
       THEN i' = i + 1 /\ pc' = pc
       ELSE i' = 0 /\ pc' = "crash"
    /\ UNCHANGED <<idx, delta, to_write, midi_bytes, last_time, midi_data, file, console>>

Crash ==
    /\ pc = "crash"
    /\ events' = Append(events, CrashEvent)
    /\ pc' = "eot"
    /\ UNCHANGED <<i, idx, delta, to_write, midi_bytes, last_time, midi_data, file, console>>

EndOfTrack ==
    /\ pc = "eot"
    /\ events' = Append(events, EndOfTrackEvent)
    /\ pc' = "sort"
    /\ UNCHANGED <<i, idx, delta, to_write, midi_bytes, last_time, midi_data, file, console>>

\* events.sort(...); midi_bytes = bytearray(); last_time = 0
SortEvents ==
    /\ pc = "sort"
    /\ events' = SortByTime(events)
    /\ midi_bytes' = <<>>
    /\ last_time' = 0
    /\ idx' = 1
    /\ pc' = "for"
    /\ UNCHANGED <<i, delta, to_write, midi_data, file, console>>

\* head of one iteration of the serialization loop, up to the while test
ForEvent ==
    /\ pc = "for"
    /\ idx <= Len(events)
    /\ LET d == events[idx].time - last_time
       IN /\ to_write' = <<VlqLowByte(d)>>
          /\ delta' = Shr7(d)
    /\ pc' = "while"
    /\ UNCHANGED <<i, events, idx, midi_bytes, last_time, midi_data, file, console>>

\* one iteration of `while delta:`; the deltas of a time-ordered list of
\* non-negative ticks here take at most four bytes, so MaxVlqBytes never binds
WhileDelta ==
    /\ pc = "while"
    /\ delta # 0
    /\ Len(to_write) < MaxVlqBytes
    /\ to_write' = <<VlqContinuationByte(delta)>> \o to_write
    /\ delta' = Shr7(delta)
    /\ UNCHANGED <<pc, i, events, idx, midi_bytes, last_time, midi_data, file, console>>

\* rest of the iteration once the while loop has ended
AppendEvent ==
    /\ pc = "while"
    /\ delta = 0
    /\ midi_bytes' = midi_bytes \o to_write \o events[idx].data
    /\ last_time' = events[idx].time
    /\ idx' = idx + 1
    /\ pc' = "for"
    /\ UNCHANGED <<i, events, delta, to_write, midi_data, file, console>>

\* after the loop: header, track chunk header, midi_data
WrapTrack ==
    /\ pc = "for"
    /\ idx > Len(events)
    /\ midi_data' = header \o track_chunk(midi_bytes) \o midi_bytes
    /\ pc' = "open"
    /\ UNCHANGED <<i, events, idx, delta, to_write, midi_bytes, last_time, file, console>>

\* open("genre_blend.mid", "wb") creates or truncates the file
OpenFile ==
    /\ pc = "open"
    /\ file' = [exists |-> TRUE, content |-> <<>>]
    /\ pc' = "write"
    /\ UNCHANGED <<i, events, idx, delta, to_write, midi_bytes, last_time, midi_data, console>>

\* open raises OSError: nothing is created, the script ends with the error
OpenFails ==
    /\ pc = "open"
    /\ pc' = "io_error"
    /\ UNCHANGED <<i, events, idx, delta, to_write, midi_bytes, last_time, midi_data, file, console>>

\* f.write(midi_data) and the close at the end of the with block succeed
WriteFile ==
    /\ pc = "write"
    /\ file' = [exists |-> TRUE, content |-> midi_data]
    /\ pc' = "print"
    /\ UNCHANGED <<i, events, idx, delta, to_write, midi_bytes, last_time, midi_data, console>>

\* the write or the flush on close raises OSError: the with block closes the
\* file and the exception ends the script; nothing removes the file
WriteFails ==
    /\ pc = "write"
    /\ \E n \in PartialWrites(midi_data) :
          file' = [exists |-> TRUE, content |-> SubSeq(midi_data, 1, n)]
    /\ pc' = "io_error"
    /\ UNCHANGED <<i, events, idx, delta, to_write, midi_bytes, last_time, midi_data, console>>

PrintDone ==
    /\ pc = "print"
    /\ console' = Append(console, ConfirmationLine)
    /\ pc' = "done"
    /\ UNCHANGED <<i, events, idx, delta, to_write, midi_bytes, last_time, midi_data, file>>

Next ==
    \/ ProgramChanges
    \/ TempoChange
    \/ ClassicalStep
    \/ ReggaeStep
    \/ RockStep
    \/ Crash
    \/ EndOfTrack
    \/ SortEvents
    \/ ForEvent
    \/ WhileDelta
    \/ AppendEvent
    \/ WrapTrack
    \/ OpenFile
    \/ OpenFails
    \/ WriteFile
    \/ WriteFails
    \/ PrintDone

Spec == Init /\ [][Next]_vars

(***************************************************************************)
(* The serializer (sort, delta encoding, framing) applied to short event   *)
(* lists drawn from bounded sets                                           *)
(***************************************************************************)
BoundaryTicks == {0, 127, 128, 16383, 16384, 2097151, 2097152}

PayloadInputs == {NoteOn(CHAN_CLASSICAL, 60, 100), NoteOff(CHAN_CLASSICAL, 60, 64)}

EventInputs(ticks) == {Ev(t, d) : t \in ticks, d \in PayloadInputs}

ListsUpTo(S, n) == UNION {[1..k -> S] : k \in 1..n}

SerializerStart(inputs) ==
    /\ pc = "sort"
    /\ i = 0
    /\ events \in inputs
    /\ idx = 1
    /\ delta = 0
    /\ to_write = <<>>
    /\ midi_bytes = <<>>
    /\ last_time = 0
    /\ midi_data = <<>>
    /\ file = NoFile
    /\ console = <<>>

InitSerializer ==
    SerializerStart(ListsUpTo(EventInputs(BoundaryTicks), MaxEvents)
                    \cup [1..1 -> EventInputs(0..MaxDelta)])

NextSerializer ==
    \/ SortEvents
    \/ ForEvent
    \/ WhileDelta
    \/ AppendEvent
    \/ WrapTrack

SpecSerializer == InitSerializer /\ [][NextSerializer]_vars

(***************************************************************************)
(* Properties                                                              *)
(***************************************************************************)
Built == pc \notin {"programs", "tempo", "classical", "reggae", "rock", "crash", "eot"}
Sorted == Built /\ pc # "sort"
Framed == pc \in {"open", "write", "print", "done", "io_error"}

IsNoteOn(e) == Len(e.data) = 3 /\ e.data[1] \div 16 = 9
IsNoteOff(e) == Len(e.data) = 3 /\ e.data[1] \div 16 = 8
ChannelOf(e) == e.data[1] % 16
MelodicChannels == {CHAN_CLASSICAL, CHAN_REGGAE, CHAN_BASS, CHAN_ROCK}
EotBytes == <<255, 47, 0>>

\* the canonical MIDI variable-length quantity decoder
RECURSIVE VlqDecodeFrom(_, _)
VlqDecodeFrom(acc, bytes) ==
    IF bytes = <<>> THEN acc
    ELSE VlqDecodeFrom(acc * 128 + (Head(bytes) % 128), Tail(bytes))

VlqDecode(bytes) == VlqDecodeFrom(0, bytes)

RECURSIVE VlqLen(_)
VlqLen(d) == IF d < 128 THEN 1 ELSE 1 + VlqLen(d \div 128)

\* the delta the loop is encoding while it is inside iteration idx
CurrentDelta == events[idx].time - last_time

\* C1: for a non-negative delta the bytes left in to_write when the while
\* loop ends are the canonical variable-length quantity of the delta: they
\* decode to it, every byte but the last carries 0x80, the first byte is not
\* a bare 0x80, and delta 0 is the single byte 0x00.
C1_VlqCanonical ==
    (pc = "while" /\ delta = 0 /\ CurrentDelta >= 0) =>
        /\ Len(to_write) >= 1
        /\ \A k \in 1..Len(to_write) : to_write[k] \in 0..255
        /\ VlqDecode(to_write) = CurrentDelta
        /\ \A k \in 1..(Len(to_write) - 1) : to_write[k] >= 128
        /\ to_write[Len(to_write)] < 128
        /\ (Len(to_write) > 1 => to_write[1] # 128)
        /\ Len(to_write) = VlqLen(CurrentDelta)
        /\ (CurrentDelta = 0 => to_write = <<0>>)

C1_Witness ==
    /\ pc = "while"
    /\ delta = 0
    /\ CurrentDelta = 2097152
    /\ to_write = <<129, 128, 128, 0>>

RECURSIVE SumRange(_, _, _)
SumRange(f, lo, hi) ==
    IF lo > hi THEN 0
    ELSE IF lo = hi THEN f[lo]
    ELSE LET mid == (lo + hi) \div 2
         IN SumRange(f, lo, mid) + SumRange(f, mid + 1, hi)

\* bytes event k of the sorted list takes in the track body
EventSize(k) ==
    VlqLen(events[k].time - (IF k = 1 THEN 0 ELSE events[k - 1].time))
    + Len(events[k].data)

BigEndian32(b) == ((b[1] * 256 + b[2]) * 256 + b[3]) * 256 + b[4]

\* C2: the assembled and written bytes start with the 14 header bytes
\* 4D 54 68 64 00 00 00 06 00 00 00 01 00 60, continue with 'MTrk', and the
\* big-endian 32-bit field at offset 18 is the number of bytes after it,
\* which is the sum over the events of delta length plus payload length.
C2_FileLayout ==
    /\ Framed =>
        /\ SubSeq(midi_data, 1, 14) = <<77, 84, 104, 100, 0, 0, 0, 6, 0, 0, 0, 1, 0, 96>>
        /\ SubSeq(midi_data, 15, 18) = <<77, 84, 114, 107>>
        /\ BigEndian32(SubSeq(midi_data, 19, 22)) = Len(midi_data) - 22
        /\ Len(midi_data) - 22 =
              SumRange([k \in 1..Len(events) |-> EventSize(k)], 1, Len(events))
        /\ SubSeq(midi_data, 23, Len(midi_data)) = midi_bytes
    /\ pc \in {"print", "done"} => file.content = midi_data

C2_Witness ==
    /\ pc = "done"
    /\ file.content = midi_data
    /\ Len(midi_data) = 2127
    /\ SubSeq(midi_data, 19, 22) = <<0, 0, 8, 57>>

\* C3: in the sorted list the last event is the End-of-Track meta event
\* FF 2F 00 at tick 9216, no event has a later tick, no other event is an
\* End-of-Track, and the track body ends with its bytes.
C3_EndOfTrackLast ==
    /\ Sorted =>
        /\ events[Len(events)].data = EotBytes
        /\ events[Len(events)].time = 9216
        /\ \A k \in 1..Len(events) : events[k].time <= 9216
        /\ \A k \in 1..(Len(events) - 1) : events[k].data # EotBytes
    /\ Framed =>
        SubSeq(midi_data, Len(midi_data) - 2, Len(midi_data)) = EotBytes

C3_Witness ==
    /\ pc = "done"
    /\ events[Len(events) - 1] = Ev(9216, NoteOff(CHAN_ROCK, 52, 64))
    /\ events[Len(events)] = Ev(9216, EotBytes)
    /\ SubSeq(midi_data, Len(midi_data) - 7, Len(midi_data)) = <<0, 132, 52, 64, 0, 255, 47, 0>>

EventsAt(s, t) ==
    LET AtT(e) == e.time = t
    IN SelectSeq(s, AtT)

\* C4: the sort step leaves the list ascending by time, with the same
\* events, and the events of any one tick in the order they had before.
C4_SortStable ==
    [][pc = "sort" =>
        /\ Len(events') = Len(events)
        /\ \A k \in 1..(Len(events') - 1) : events'[k].time <= events'[k + 1].time
        /\ \A t \in {events[k].time : k \in 1..Len(events)} \cup
                    {events'[k].time : k \in 1..Len(events')} :
              EventsAt(events', t) = EventsAt(events, t)]_vars

C4_Witness ==
    /\ pc = "for"
    /\ idx = 1
    /\ events = << Ev(127, NoteOff(CHAN_CLASSICAL, 60, 64)),
                   Ev(16384, NoteOff(CHAN_CLASSICAL, 60, 64)),
                   Ev(16384, NoteOn(CHAN_CLASSICAL, 60, 100)) >>

CountWhere(s, Test(_)) == Cardinality({k \in 1..Len(s) : Test(s[k])})

IsClassicalOn(e) == Len(e.data) = 3 /\ e.data[1] = 144
IsClassicalOff(e) == Len(e.data) = 3 /\ e.data[1] = 128

\* C6: the classical section contributes 24 Note-On (0x90) and 24 Note-Off
\* (0x80) events on channel 0, 48 in all; chord n (0-based) has its three
\* Note-Ons at tick 384 n and its three Note-Offs at tick 384 (n + 1).
C6_ClassicalSection ==
    pc \notin {"programs", "tempo", "classical"} =>
        /\ CountWhere(events, IsClassicalOn) = 24
        /\ CountWhere(events, IsClassicalOff) = 24
        /\ \A n \in 0..7 :
              /\ Cardinality({k \in 1..Len(events) :
                    IsClassicalOn(events[k]) /\ events[k].time = 384 * n}) = 3
              /\ Cardinality({k \in 1..Len(events) :
                    IsClassicalOff(events[k]) /\ events[k].time = 384 * (n + 1)}) = 3
              /\ \A m \in 1..3 :
                    LET pitch == chords_classical[progression_classical[n + 1]][m]
                    IN /\ \E k \in 1..Len(events) :
                             events[k] = Ev(384 * n, <<144, pitch, 100>>)
                       /\ \E k \in 1..Len(events) :
                             events[k] = Ev(384 * (n + 1), <<128, pitch, 64>>)

C6_Witness ==
    /\ pc = "reggae"
    /\ i = 0
    /\ Len(events) = 55
    /\ events[8] = Ev(0, <<144, 57, 100>>)
    /\ events[11] = Ev(384, <<128, 57, 64>>)

SectionStarts == {0, 3072, 6144}

IsTempo(e) == Len(e.data) = 6 /\ SubSeq(e.data, 1, 3) = <<255, 81, 3>>

\* C8: every melodic channel has a program change at tick 0 and every
\* section a tempo event FF 51 03 at its first tick; in the sorted order the
\* program change of a channel comes before every Note-On of the channel and
\* the tempo event of a section before every Note-On of the section.
C8_SetupBeforeNotes ==
    /\ Built =>
        /\ \A c \in MelodicChannels :
              \E p \in 1..Len(events) :
                 /\ events[p].time = 0
                 /\ Len(events[p].data) = 2
                 /\ events[p].data[1] = 192 + c
        /\ \A t \in SectionStarts :
              \E p \in 1..Len(events) : events[p].time = t /\ IsTempo(events[p])
        /\ \A p \in 1..Len(events) : IsTempo(events[p]) => events[p].time \in SectionStarts
    /\ Sorted =>
        /\ \A c \in MelodicChannels :
              \E p \in 1..Len(events) :
                 /\ events[p].time = 0
                 /\ events[p].data[1] = 192 + c
                 /\ \A q \in 1..Len(events) :
                       (IsNoteOn(events[q]) /\ ChannelOf(events[q]) = c) => p < q
        /\ \A t \in SectionStarts :
              \E p \in 1..Len(events) :
                 /\ events[p].time = t
                 /\ IsTempo(events[p])
                 /\ \A q \in 1..Len(events) :
                       (IsNoteOn(events[q]) /\ events[q].time >= t
                          /\ events[q].time < t + 3072) => p < q

C8_Witness ==
    /\ pc = "done"
    /\ \E p \in 1..Len(events) :
          /\ events[p].time = 3072
          /\ IsTempo(events[p])
          /\ events[p - 1].time < 3072
          /\ events[p + 1] = Ev(3072, <<128, 52, 64>>)
          /\ \E q \in (p + 1)..Len(events) : events[q] = Ev(3072, NoteOn(CHAN_BASS, 33, 100))

NewEvents == SubSeq(events', Len(events) + 1, Len(events'))

InSection(new, lo, hi) ==
    \A k \in 1..Len(new) :
       /\ IsNoteOn(new[k]) \/ IsNoteOff(new[k])
       /\ IsNoteOn(new[k]) => (lo <= new[k].time /\ new[k].time < hi)
       /\ IsNoteOff(new[k]) => (lo <= new[k].time /\ new[k].time <= hi)

IsRockKick(e) == e.data = <<153, KICK, 127>>

\* C9: the sections occupy the tick ranges [0,3072), [3072,6144) and
\* [6144,9216): every Note-On a section's generator appends lies inside the
\* section's range, every Note-Off it appends no later than the end of the
\* range, and each double-time rock bar gets exactly 16 kicks.
C9_SectionsContiguous ==
    [][/\ pc = "classical" => InSection(NewEvents, 0, 3072)
       /\ pc = "reggae" => InSection(NewEvents, 3072, 6144)
       /\ pc \in {"rock", "crash"} => InSection(NewEvents, 6144, 9216)
       /\ (pc = "rock" /\ i >= 4) =>
             /\ CountWhere(NewEvents, IsRockKick) = 16
             /\ \A k \in 1..Len(NewEvents) :
                   IsRockKick(NewEvents[k]) =>
                      /\ NewEvents[k].time >= 6144 + 384 * i
                      /\ NewEvents[k].time < 6144 + 384 * (i + 1)]_vars

C9_Witness ==
    /\ pc = "crash"
    /\ events[Len(events) - 6] = Ev(9216 - 24, <<153, KICK, 127>>)
    /\ CountWhere(events, IsRockKick) = 16 * 4 + 2 * 4

IsMelodicNote(e) ==
    /\ IsNoteOn(e) \/ IsNoteOff(e)
    /\ ChannelOf(e) \in MelodicChannels

SameNote(e, f) ==
    /\ IsMelodicNote(f)
    /\ ChannelOf(f) = ChannelOf(e)
    /\ f.data[2] = e.data[2]

\* whether the pitch of event k is sounding on its channel after the events
\* before k: its latest earlier event exists and is a Note-On
SoundingBefore(k) ==
    LET earlier == {m \in 1..(k - 1) : SameNote(events[k], events[m])}
    IN /\ earlier # {}
       /\ IsNoteOn(events[CHOOSE m \in earlier : \A x \in earlier : x <= m])

\* C10: walking the sorted events in emitted order, on every melodic channel
\* a Note-On is emitted only for a pitch that is not sounding, a Note-Off
\* only for a pitch that is sounding, and at End-of-Track every Note-On has
\* been followed by a Note-Off of its pitch and channel.
C10_NoteAlternation ==
    pc = "while" =>
        /\ (IsMelodicNote(events[idx]) /\ IsNoteOn(events[idx])) => ~SoundingBefore(idx)
        /\ (IsMelodicNote(events[idx]) /\ IsNoteOff(events[idx])) => SoundingBefore(idx)
        /\ events[idx].data = EotBytes =>
              \A m \in 1..(idx - 1) :
                 (IsMelodicNote(events[m]) /\ IsNoteOn(events[m])) =>
                    \E x \in (m + 1)..(idx - 1) :
                       SameNote(events[m], events[x]) /\ IsNoteOff(events[x])

C10_Witness ==
    /\ pc = "while"
    /\ events[idx] = Ev(7680, NoteOn(CHAN_ROCK, 52, 120))
    /\ \E m \in 1..(idx - 1) : events[m] = Ev(7680, NoteOff(CHAN_ROCK, 52, 64))

\* C7: the file exists only once the whole buffer has been assembled, what
\* a completed run leaves in it is the whole buffer, and a run that ended in
\* an I/O error leaves no file behind.
C7_NoPartialFile ==
    /\ file.exists =>
          /\ pc \in {"write", "print", "done", "io_error"}
          /\ idx > Len(events)
          /\ midi_data = header \o track_chunk(midi_bytes) \o midi_bytes
    /\ pc \in {"print", "done"} => file.content = midi_data
    /\ pc = "io_error" => ~file.exists

====
